---- MODULE Spec2Model ----
(***************************************************************************)
(* Model of scripts/rename_plugin.py: the template-rename command.         *)
(*                                                                         *)
(* Text is modelled as sequences of one-character strings, so that         *)
(* str.replace, str.lower, str.capitalize, str.split, str.endswith and     *)
(* os.path.basename are computed character by character as Python does.    *)
(* The filesystem is a set of directories and a map from file paths to     *)
(* their text; a path is the sequence of its components (pathlib.Path).    *)
(* Plugin names without '/' are considered, so lua/<snake> is a direct     *)
(* child of lua; symbolic links are not modelled.                          *)
(***************************************************************************)
EXTENDS Integers, Sequences, FiniteSets, TLC

VARIABLES
    plugin_name,   \* argument 1 (text)
    username,      \* argument 2 (text)
    git_url,       \* argument 3: [none |-> BOOLEAN, text |-> text]
    plugin_snake,  \* local of main, set at line 36
    plugin_camel,  \* local of main, set at line 37
    pc,            \* position of main
    idx,           \* position of the loop over files_to_update
    dirs,          \* filesystem: the directories that exist
    files,         \* filesystem: file path -> text
    out,           \* the lines typer.echo has printed, as tags
    gitCalls,      \* number of times the git binary was invoked
    gitResult,     \* outcome of the last git call of the run
    exitCode,      \* exit status of the process; -1 while it runs
    run,           \* which invocation of the tool this is
    dirs0,         \* history: directories before the first run
    files0,        \* history: files before the first run
    filesSubst,    \* history: files on entry to the substitution loop
    filesPrev      \* history: files when the previous run finished

vars == <<plugin_name, username, git_url, plugin_snake, plugin_camel, pc, idx,
          dirs, files, out, gitCalls, gitResult, exitCode, run,
          dirs0, files0, filesSubst, filesPrev>>

(***************************************************************************)
(* Bounds of the model.                                                    *)
(***************************************************************************)
MaxRuns == 2
MaxLen == 4

(***************************************************************************)
(* Literal strings of the program.                                         *)
(***************************************************************************)
kMyplugin == <<"m","y","p","l","u","g","i","n">>
kMyPlugin == <<"M","y","P","l","u","g","i","n">>
kYourUsername == <<"y","o","u","r","-","u","s","e","r","n","a","m","e">>
kYourPluginName == <<"y","o","u","r","-","p","l","u","g","i","n","-","n","a","m","e">>
kYourPluginNameCamel == <<"Y","o","u","r","P","l","u","g","i","n","N","a","m","e">>
sLuaMyplugin == <<"l","u","a","/","m","y","p","l","u","g","i","n">>
sLuaSlash == <<"l","u","a","/">>
sInitLua == <<"/","i","n","i","t",".","l","u","a">>
sConfigLua == <<"/","c","o","n","f","i","g",".","l","u","a">>
sCommandsLua == <<"/","c","o","m","m","a","n","d","s",".","l","u","a">>
sLazyLua == <<"l","a","z","y",".","l","u","a">>
sReadmeMd == <<"R","E","A","D","M","E",".","m","d">>
sTemplate == <<"/","n","v","i","m","-","p","l","u","g","i","n","-","t","e","m","p","l","a","t","e">>
sNotesTxt == <<"n","o","t","e","s",".","t","x","t">>
suffix == <<"n","v","i","m">>
UpperLetters == <<"A","B","C","D","E","F","G","H","I","J","K","L","M","N","O","P","Q","R","S","T","U","V","W","X","Y","Z">>
LowerLetters == <<"a","b","c","d","e","f","g","h","i","j","k","l","m","n","o","p","q","r","s","t","u","v","w","x","y","z">>

(***************************************************************************)
(* Python string methods.                                                  *)
(***************************************************************************)
Drop(s, n) == SubSeq(s, n + 1, Len(s))

StartsWith(s, p) == Len(s) >= Len(p) /\ SubSeq(s, 1, Len(p)) = p

\* str.endswith
EndsWith(s, p) == Len(s) >= Len(p) /\ SubSeq(s, Len(s) - Len(p) + 1, Len(s)) = p

RECURSIVE Intersperse(_, _)
Intersperse(s, new) ==
    IF s = <<>> THEN new ELSE new \o <<Head(s)>> \o Intersperse(Tail(s), new)

RECURSIVE ReplaceFrom(_, _, _)
ReplaceFrom(s, old, new) ==
    IF Len(s) < Len(old) THEN s
    ELSE IF StartsWith(s, old) THEN new \o ReplaceFrom(Drop(s, Len(old)), old, new)
    ELSE <<Head(s)>> \o ReplaceFrom(Tail(s), old, new)

\* str.replace(old, new): every non-overlapping occurrence, left to right
Replace(s, old, new) ==
    IF old = <<>> THEN Intersperse(s, new) ELSE ReplaceFrom(s, old, new)

LowerChar(c) ==
    IF \E i \in 1..Len(UpperLetters) : UpperLetters[i] = c
    THEN LowerLetters[CHOOSE i \in 1..Len(UpperLetters) : UpperLetters[i] = c]
    ELSE c

UpperChar(c) ==
    IF \E i \in 1..Len(LowerLetters) : LowerLetters[i] = c
    THEN UpperLetters[CHOOSE i \in 1..Len(LowerLetters) : LowerLetters[i] = c]
    ELSE c

\* str.lower
Lower(s) == [i \in 1..Len(s) |-> LowerChar(s[i])]

\* str.capitalize: first character upper-cased, the rest lower-cased
Capitalize(w) ==
    IF w = <<>> THEN <<>> ELSE <<UpperChar(Head(w))>> \o Lower(Tail(w))

RECURSIVE SplitOn(_, _)
\* str.split(sep) for a one-character separator: empty segments are kept
SplitOn(s, sep) ==
    IF \A i \in 1..Len(s) : s[i] # sep THEN <<s>>
    ELSE LET i == CHOOSE k \in 1..Len(s) :
                      s[k] = sep /\ \A j \in 1..(k - 1) : s[j] # sep
         IN  <<SubSeq(s, 1, i - 1)>> \o SplitOn(Drop(s, i), sep)

RECURSIVE Join(_)
\* ''.join(words)
Join(ws) == IF ws = <<>> THEN <<>> ELSE Head(ws) \o Join(Tail(ws))

\* os.path.basename: what follows the last '/'
Basename(p) ==
    IF \A i \in 1..Len(p) : p[i] # "/" THEN p
    ELSE LET i == CHOOSE k \in 1..Len(p) :
                      p[k] = "/" /\ \A j \in (k + 1)..Len(p) : p[j] # "/"
         IN  Drop(p, i)

(***************************************************************************)
(* Name derivation.                                                        *)
(***************************************************************************)
to_snake_case(name) == Lower(Replace(name, <<"-">>, <<"_">>))

\* variant: word[0].upper() + word[1:], the rest of a word keeps its case
to_camel_case_keepcase(name) ==
    LET words == SplitOn(Replace(name, <<"-">>, <<"_">>), "_")
        Cap(w) == IF w = <<>> THEN <<>> ELSE <<UpperChar(Head(w))>> \o Tail(w)
    IN  Join([i \in 1..Len(words) |-> Cap(words[i])])

to_camel_case(name) ==
    LET words == SplitOn(Replace(name, <<"-">>, <<"_">>), "_")
    IN  Join([i \in 1..Len(words) |-> Capitalize(words[i])])

(***************************************************************************)
(* Filesystem: pathlib.Path, Path.exists, shutil.move.                     *)
(***************************************************************************)
IsComponent(c) == c # <<>> /\ c # <<".">>

\* pathlib.Path(text): the components between '/', empty ones and '.' dropped
PathOf(s) == SelectSeq(SplitOn(s, "/"), IsComponent)

IsPrefix(a, p) == Len(p) >= Len(a) /\ SubSeq(p, 1, Len(a)) = a

\* Path.exists
Exists(p) == p \in dirs \/ p \in DOMAIN files

\* os.rename(src, to) where nothing but possibly a plain file is at `to`:
\* src and everything below it is found under `to` afterwards
Renamed(src, to) ==
    LET Re(p) == IF IsPrefix(src, p) THEN to \o Drop(p, Len(src)) ELSE p
        Pre(q) == IF \E p \in DOMAIN files : IsPrefix(src, p) /\ Re(p) = q
                  THEN CHOOSE p \in DOMAIN files : IsPrefix(src, p) /\ Re(p) = q
                  ELSE q
    IN  [raised |-> FALSE,
         dirs   |-> {Re(d) : d \in dirs},
         files  |-> [q \in {Re(p) : p \in DOMAIN files} |-> files[Pre(q)]]]

MoveRaises == [raised |-> TRUE, dirs |-> dirs, files |-> files]

\* shutil.move(src, dst) for an existing src
Move(src, dst) ==
    IF dst \in dirs
    THEN IF src = dst
         THEN [raised |-> FALSE, dirs |-> dirs, files |-> files]
         ELSE LET real_dst == Append(dst, src[Len(src)])
              IN  IF Exists(real_dst) THEN MoveRaises
                  ELSE Renamed(src, real_dst)
    ELSE IF dst \in DOMAIN files /\ src \in dirs THEN MoveRaises
    ELSE Renamed(src, dst)

(***************************************************************************)
(* Locals of main.                                                         *)
(***************************************************************************)
\* the dict keeps insertion order: an ordered sequence of (old, new)
replacements ==
    << <<kMyplugin, plugin_snake>>,
       <<kMyPlugin, plugin_camel>>,
       <<kYourUsername, username>>,
       <<kYourPluginName, plugin_name>>,
       <<kYourPluginNameCamel, plugin_camel>> >>

RECURSIVE ApplyFrom(_, _, _)
ApplyFrom(content, table, i) ==
    IF i > Len(table) THEN content
    ELSE ApplyFrom(Replace(content, table[i][1], table[i][2]), table, i + 1)

\* variant: the loop over the table stops after its first entry
ApplyFirstOnly(content) ==
    Replace(content, replacements[1][1], replacements[1][2])

\* variant: the text is written back with a newline added
ApplyThenNewline(content) == ApplyFrom(content, replacements, 1) \o <<"\n">>

\* the inner loop: for old, new in replacements.items(): content.replace
ApplyReplacements(content) == ApplyFrom(content, replacements, 1)

old_dir == PathOf(sLuaMyplugin)

new_dir == PathOf(sLuaSlash \o plugin_snake)

\* variant: README.md is left out of the list
files_to_update_noreadme ==
    << sLuaSlash \o plugin_snake \o sInitLua,
       sLuaSlash \o plugin_snake \o sConfigLua,
       sLuaSlash \o plugin_snake \o sCommandsLua,
       sLazyLua >>

\* variant: the list names one more file
files_to_update_notes ==
    << sLuaSlash \o plugin_snake \o sInitLua,
       sLuaSlash \o plugin_snake \o sConfigLua,
       sLuaSlash \o plugin_snake \o sCommandsLua,
       sLazyLua,
       sReadmeMd,
       sNotesTxt >>

files_to_update ==
    << sLuaSlash \o plugin_snake \o sInitLua,
       sLuaSlash \o plugin_snake \o sConfigLua,
       sLuaSlash \o plugin_snake \o sCommandsLua,
       sLazyLua,
       sReadmeMd >>

\* variant: `if git_url is not None:`
TruthyNotNone(u) == ~u.none

\* `if git_url:` is false for None and for the empty string
Truthy(u) == ~u.none /\ u.text # <<>>

repo_name == Basename(git_url.text)

repo_stripped == SubSeq(repo_name, 1, Len(repo_name) - Len(suffix))

lazy_path == PathOf(sLazyLua)

Echo(tag, path) == Append(out, [tag |-> tag, path |-> path])

(***************************************************************************)
(* The steps of main, in program order.                                    *)
(***************************************************************************)
args == <<plugin_name, username, git_url>>
hist == <<dirs0, files0, filesPrev>>

\* lines 36-39
Derive ==
    /\ pc = "start"
    /\ plugin_snake' = to_snake_case(plugin_name)
    /\ plugin_camel' = to_camel_case(plugin_name)
    /\ out' = Echo("renaming", <<>>)
    /\ pc' = "rename"
    /\ UNCHANGED <<args, hist, idx, dirs, files, gitCalls, gitResult, exitCode,
                   run, filesSubst>>

\* lines 50-55; an exception of shutil.move is not caught and ends the process
RenameDir ==
    /\ pc = "rename"
    /\ IF Exists(old_dir)
       THEN LET m == Move(old_dir, new_dir)
            IN  IF m.raised
                THEN /\ pc' = "error"
                     /\ exitCode' = 1
                     /\ UNCHANGED <<dirs, files, out, idx, filesSubst>>
                ELSE /\ dirs' = m.dirs
                     /\ files' = m.files
                     /\ filesSubst' = m.files
                     /\ out' = Echo("renamed", new_dir)
                     /\ pc' = "update"
                     /\ idx' = 1
                     /\ UNCHANGED exitCode
       ELSE /\ pc' = "update"
            /\ idx' = 1
            /\ filesSubst' = files
            /\ UNCHANGED <<dirs, files, out, exitCode>>
    /\ UNCHANGED <<args, hist, plugin_snake, plugin_camel, gitCalls, gitResult, run>>

\* lines 66-73, one iteration; read_text of a directory raises
UpdateFile ==
    /\ pc = "update"
    /\ LET path == PathOf(files_to_update[idx])
           last == idx = Len(files_to_update)
       IN  IF path \in dirs
           THEN /\ pc' = "error"
                /\ exitCode' = 1
                /\ UNCHANGED <<files, out, idx>>
           ELSE /\ IF path \in DOMAIN files
                   THEN /\ files' = [files EXCEPT ![path] = ApplyReplacements(@)]
                        /\ out' = Echo("updated", path)
                   ELSE UNCHANGED <<files, out>>
                /\ idx' = IF last THEN idx ELSE idx + 1
                /\ pc' = IF last THEN "git" ELSE "update"
                /\ UNCHANGED exitCode
    /\ UNCHANGED <<args, hist, plugin_snake, plugin_camel, dirs, gitCalls,
                   gitResult, run, filesSubst>>

GitOutcomes == {"ok", "nonzero", "notfound"}

\* variant: `except subprocess.CalledProcessError`, which does not catch the
\* FileNotFoundError of a missing git binary
GitRemoteUncaught ==
    /\ pc = "git"
    /\ IF Truthy(git_url)
       THEN \E outcome \in GitOutcomes :
                /\ gitCalls' = gitCalls + 1
                /\ gitResult' = outcome
                /\ IF outcome = "notfound"
                   THEN /\ pc' = "error"
                        /\ exitCode' = 1
                        /\ UNCHANGED out
                   ELSE /\ out' = Echo(IF outcome = "ok" THEN "git_ok" ELSE "git_warn", <<>>)
                        /\ pc' = "lazy"
                        /\ UNCHANGED exitCode
       ELSE /\ pc' = "finish"
            /\ UNCHANGED <<gitCalls, gitResult, out, exitCode>>
    /\ UNCHANGED <<args, hist, plugin_snake, plugin_camel, idx, dirs, files,
                   run, filesSubst>>

\* lines 76-81: subprocess.run(..., check=True) under `except Exception`
GitRemote ==
    /\ pc = "git"
    /\ IF Truthy(git_url)
       THEN \E outcome \in GitOutcomes :
                /\ gitCalls' = gitCalls + 1
                /\ gitResult' = outcome
                /\ out' = Echo(IF outcome = "ok" THEN "git_ok" ELSE "git_warn", <<>>)
                /\ pc' = "lazy"
       ELSE /\ pc' = "finish"
            /\ UNCHANGED <<gitCalls, gitResult, out>>
    /\ UNCHANGED <<args, hist, plugin_snake, plugin_camel, idx, dirs, files,
                   exitCode, run, filesSubst>>

\* lines 84-93
LazyPatch ==
    /\ pc = "lazy"
    /\ IF EndsWith(repo_name, suffix) /\ Exists(lazy_path)
       THEN IF lazy_path \in dirs
            THEN /\ pc' = "error"
                 /\ exitCode' = 1
                 /\ UNCHANGED <<files, out>>
            ELSE /\ files' = [files EXCEPT
                        ![lazy_path] = Replace(@, sTemplate, <<"/">> \o repo_stripped)]
                 /\ out' = Echo("lazy_updated", lazy_path)
                 /\ pc' = "finish"
                 /\ UNCHANGED exitCode
       ELSE /\ pc' = "finish"
            /\ UNCHANGED <<files, out, exitCode>>
    /\ UNCHANGED <<args, hist, plugin_snake, plugin_camel, idx, dirs, gitCalls,
                   gitResult, run, filesSubst>>

\* line 100, then typer.run returns and the process exits 0
Finish ==
    /\ pc = "finish"
    /\ out' = Echo("done", <<>>)
    /\ pc' = "done"
    /\ exitCode' = 0
    /\ UNCHANGED <<args, hist, plugin_snake, plugin_camel, idx, dirs, files,
                   gitCalls, gitResult, run, filesSubst>>

\* the user runs the tool again with the same arguments on the result
Rerun ==
    /\ pc = "done"
    /\ run < MaxRuns
    /\ run' = run + 1
    /\ filesPrev' = files
    /\ pc' = "start"
    /\ idx' = 1
    /\ out' = <<>>
    /\ gitResult' = "none"
    /\ exitCode' = -1
    /\ plugin_snake' = <<>>
    /\ plugin_camel' = <<>>
    /\ UNCHANGED <<args, dirs0, files0, dirs, files, gitCalls, filesSubst>>

Next == Derive \/ RenameDir \/ UpdateFile \/ GitRemote \/ LazyPatch \/ Finish

NextRerun == Next \/ Rerun

(***************************************************************************)
(* Inputs: the arguments and the working directory the tool is run in.     *)
(***************************************************************************)
nFoo == <<"f","o","o">>
nMyDashPlugin == <<"m","y","-","p","l","u","g","i","n">>
nMyplugin == <<"m","y","p","l","u","g","i","n">>
nPlug == <<"p","l","u","g">>
PluginNames == {nFoo, nMyDashPlugin, nMyplugin, nPlug}

uAlice == <<"a","l","i","c","e">>
uMe == <<"m","e">>
Usernames == {uAlice, uMe}

urlFooNvim == <<"h","t","t","p","s",":","/","/","g","i","t","h","u","b",".","c","o","m","/","a","l","i","c","e","/","f","o","o",".","n","v","i","m">>
urlFoo == <<"h","t","t","p","s",":","/","/","g","i","t","h","u","b",".","c","o","m","/","a","l","i","c","e","/","f","o","o">>
urlTemplateNvim == <<"h","t","t","p","s",":","/","/","g","i","t","h","u","b",".","c","o","m","/","a","l","i","c","e","/","n","v","i","m","-","p","l","u","g","i","n","-","t","e","m","p","l","a","t","e",".","n","v","i","m">>
NoUrl == [none |-> TRUE, text |-> <<>>]
Url(text) == [none |-> FALSE, text |-> text]
GitUrls == {NoUrl, Url(<<>>), Url(urlFooNvim), Url(urlFoo), Url(urlTemplateNvim)}

tPlain == <<"p","l","a","i","n">>
tNames == <<"f","o","o"," ","m","y","p","l","u","g","i","n",".","M","y","P","l","u","g","i","n">>
tAll == <<"y","o","u","r","-","u","s","e","r","n","a","m","e","/","y","o","u","r","-","p","l","u","g","i","n","-","n","a","m","e"," ","Y","o","u","r","P","l","u","g","i","n","N","a","m","e">>
tStraddle == <<"m","y","m","y","p","l","u","g","i","n","i","n">>
tUserStraddle == <<"y","o","u","r","-","u","s","e","r","n","a","y","o","u","r","-","u","s","e","r","n","a","m","e">>
tRepo == <<"x","/","n","v","i","m","-","p","l","u","g","i","n","-","t","e","m","p","l","a","t","e">>
tLazy == <<"y","o","u","r","-","u","s","e","r","n","a","m","e","/","n","v","i","m","-","p","l","u","g","i","n","-","t","e","m","p","l","a","t","e">>

\* marks a file that is not there when the working directory is laid out
Absent == <<"<absent>">>
Opt(texts) == texts \cup {Absent}

NoFiles == [p \in {} |-> <<>>]
FileAt(pathText, content) ==
    IF content = Absent THEN NoFiles ELSE PathOf(pathText) :> content

DstLayouts == {"none", "empty", "init", "nested"}

\* the files of the working directory for one choice of layout
Layout(snake, hasSrc, srcInit, srcConfig, srcCommands, dst, lazy, readme) ==
    LET dstText == sLuaSlash \o snake
    IN  [dirs  |-> {PathOf(sLuaSlash)}
                   \cup (IF hasSrc THEN {PathOf(sLuaMyplugin)} ELSE {})
                   \cup (IF dst # "none" THEN {PathOf(dstText)} ELSE {})
                   \cup (IF dst = "nested"
                         THEN {PathOf(dstText \o <<"/">> \o kMyplugin)} ELSE {}),
         files |-> (IF hasSrc
                    THEN FileAt(sLuaMyplugin \o sInitLua, srcInit)
                         @@ FileAt(sLuaMyplugin \o sConfigLua, srcConfig)
                         @@ FileAt(sLuaMyplugin \o sCommandsLua, srcCommands)
                    ELSE NoFiles)
                   @@ (IF dst = "init"
                       THEN FileAt(dstText \o sInitLua, tNames) ELSE NoFiles)
                   @@ FileAt(sLazyLua, lazy)
                   @@ FileAt(sReadmeMd, readme)
                   @@ FileAt(sNotesTxt, tNames)]

Layouts(snake) ==
    { Layout(snake, FALSE, Absent, Absent, Absent, dst, lazy, readme) :
        dst \in DstLayouts,
        lazy \in Opt({tLazy, tRepo}),
        readme \in Opt({tAll, tStraddle, tUserStraddle}) }
    \cup
    { Layout(snake, TRUE, srcInit, srcConfig, srcCommands, dst, lazy, readme) :
        srcInit \in {tNames},
        srcConfig \in Opt({tAll}),
        srcCommands \in Opt({tPlain}),
        dst \in DstLayouts,
        lazy \in Opt({tLazy, tRepo}),
        readme \in Opt({tAll, tStraddle, tUserStraddle}) }

InitRun(name, user, url, fs) ==
    /\ plugin_name = name
    /\ username = user
    /\ git_url = url
    /\ plugin_snake = <<>>
    /\ plugin_camel = <<>>
    /\ pc = "start"
    /\ idx = 1
    /\ dirs = fs.dirs
    /\ files = fs.files
    /\ out = <<>>
    /\ gitCalls = 0
    /\ gitResult = "none"
    /\ exitCode = -1
    /\ run = 1
    /\ dirs0 = fs.dirs
    /\ files0 = fs.files
    /\ filesSubst = fs.files
    /\ filesPrev = fs.files

Init ==
    \E name \in PluginNames, user \in Usernames, url \in GitUrls :
        \E fs \in Layouts(to_snake_case(name)) : InitRun(name, user, url, fs)

Spec == Init /\ [][Next]_vars

SpecRerun == Init /\ [][NextRerun]_vars

(***************************************************************************)
(* Name derivation alone, over every identifier of a small alphabet.       *)
(***************************************************************************)
IdChars == {"a", "b", "C", "-", "_"}
nABC == <<"a","-","b","-","c">>
RECURSIVE SeqsUpTo(_)
SeqsUpTo(n) ==
    IF n = 0 THEN {<<>>}
    ELSE LET shorter == SeqsUpTo(n - 1)
         IN  shorter \cup {Append(s, c) : s \in shorter, c \in IdChars}
Identifiers == SeqsUpTo(MaxLen) \cup {nMyDashPlugin, nABC}

EmptyDir == [dirs |-> {}, files |-> NoFiles]

InitNames == \E name \in Identifiers : InitRun(name, uAlice, NoUrl, EmptyDir)

NextNames == Derive

SpecNames == InitNames /\ [][NextNames]_vars

(***************************************************************************)
(* Vocabulary of the properties.                                           *)
(***************************************************************************)
Placeholders ==
    {kMyplugin, kMyPlugin, kYourUsername, kYourPluginName, kYourPluginNameCamel}

\* the text `sub` occurs somewhere in `s`
Occurs(s, sub) ==
    \E i \in 1..(Len(s) - Len(sub) + 1) : SubSeq(s, i, i + Len(sub) - 1) = sub

RECURSIVE Count(_, _)
\* str.count: the number of non-overlapping occurrences, left to right
Count(s, sub) ==
    IF sub = <<>> THEN Len(s) + 1
    ELSE IF Len(s) < Len(sub) THEN 0
    ELSE IF StartsWith(s, sub) THEN 1 + Count(Drop(s, Len(sub)), sub)
    ELSE Count(Tail(s), sub)

HasPlaceholder(s) == \E k \in Placeholders : Occurs(s, k)

\* v laid over k at some offset agrees with it wherever the two overlap: a
\* piece of v can then be (part of) an occurrence of k
Overlap(v, k) ==
    \E d \in (1 - Len(v))..(Len(k) - 1) :
        \A i \in 1..Len(v) : (i + d) \in 1..Len(k) => v[i] = k[i + d]

SafeValue(v) == v # <<>> /\ \A k \in Placeholders : ~Overlap(v, k)

\* no replacement text is empty or can overlap a placeholder
SafeArgs ==
    /\ SafeValue(to_snake_case(plugin_name))
    /\ SafeValue(to_camel_case(plugin_name))
    /\ SafeValue(username)
    /\ SafeValue(plugin_name)

cLua == <<"l","u","a">>
cInitLua == <<"i","n","i","t",".","l","u","a">>
cConfigLua == <<"c","o","n","f","i","g",".","l","u","a">>
cCommandsLua == <<"c","o","m","m","a","n","d","s",".","l","u","a">>
LazyFile == <<sLazyLua>>
ReadmeFile == <<sReadmeMd>>

\* the five fixed target paths, once plugin_snake is set
TargetPaths ==
    { <<cLua, plugin_snake, cInitLua>>, <<cLua, plugin_snake, cConfigLua>>,
      <<cLua, plugin_snake, cCommandsLua>>, LazyFile, ReadmeFile }

SrcDir == <<cLua, kMyplugin>>

Tags == {out[i].tag : i \in 1..Len(out)}
Logged(tag, path) == \E i \in 1..Len(out) : out[i] = [tag |-> tag, path |-> path]

PastRename == pc \in {"update", "git", "lazy", "finish", "done"}

RECURSIVE SumCounts(_, _, _)
\* occurrences in `s` of the placeholders of `table` whose replacement is v
SumCounts(s, table, v) ==
    IF table = <<>> THEN 0
    ELSE (IF Head(table)[2] = v THEN Count(s, Head(table)[1]) ELSE 0)
         + SumCounts(s, Tail(table), v)

(***************************************************************************)
(* C5: for every identifier the snake form is the identifier with '-'      *)
(* replaced by '_' and lower-cased (no hyphen, no upper-case letter), the  *)
(* capitalized form is the segments between '-'/'_' each capitalized and   *)
(* concatenated; my-plugin gives my_plugin and MyPlugin, a-b-c gives a_b_c.*)
(***************************************************************************)
IsSep(c) == c \in {"-", "_"}

RECURSIVE CamelOf(_, _)
\* letter by letter: separators vanish, the first letter of a segment is
\* upper-cased and the others lower-cased
CamelOf(name, i) ==
    IF i > Len(name) THEN <<>>
    ELSE IF IsSep(name[i]) THEN CamelOf(name, i + 1)
    ELSE <<(IF i = 1 \/ IsSep(name[i - 1])
            THEN UpperChar(name[i]) ELSE LowerChar(name[i]))>>
         \o CamelOf(name, i + 1)

\* C5: the derived snake and capitalized forms are as described, for every
\* identifier
C5_NameForms ==
    pc = "rename" =>
        /\ Len(plugin_snake) = Len(plugin_name)
        /\ \A i \in 1..Len(plugin_name) :
              /\ plugin_snake[i] # "-"
              /\ \A j \in 1..Len(UpperLetters) : plugin_snake[i] # UpperLetters[j]
              /\ plugin_snake[i] = (IF plugin_name[i] = "-" THEN "_"
                                    ELSE LowerChar(plugin_name[i]))
        /\ plugin_camel = CamelOf(plugin_name, 1)
        /\ \A i \in 1..Len(plugin_camel) : ~IsSep(plugin_camel[i])
        /\ plugin_name = nMyDashPlugin =>
              /\ plugin_snake = <<"m","y","_","p","l","u","g","i","n">>
              /\ plugin_camel = kMyPlugin
        /\ plugin_name = nABC =>
              /\ plugin_snake = <<"a","_","b","_","c">>
              /\ plugin_camel = <<"A","B","C">>

C5_Witness ==
    /\ pc = "rename"
    /\ plugin_name = nMyDashPlugin
    /\ plugin_snake = <<"m","y","_","p","l","u","g","i","n">>
    /\ plugin_camel = kMyPlugin

(***************************************************************************)
(* C1 as stated: after the substitution step every target file that        *)
(* exists contains no placeholder, and contains each replacement text once *)
(* for each occurrence of the placeholders it replaces, for every plugin   *)
(* name and username.                                                      *)
(***************************************************************************)
C1_Original ==
    pc = "git" =>
        \A p \in TargetPaths \cap DOMAIN files :
            /\ ~HasPlaceholder(files[p])
            /\ \A i \in 1..Len(replacements) :
                  Count(files[p], replacements[i][2])
                      = SumCounts(filesSubst[p], replacements, replacements[i][2])

(***************************************************************************)
(* C1 amended: when no replacement text is empty or can overlap a          *)
(* placeholder, after the substitution step every target file that exists  *)
(* contains no placeholder and contains each replacement text at least     *)
(* once for each occurrence of the placeholders it replaces.               *)
(***************************************************************************)
C1_SubstitutionWhenSafe ==
    (pc = "git" /\ SafeArgs) =>
        \A p \in TargetPaths \cap DOMAIN files :
            /\ ~HasPlaceholder(files[p])
            /\ \A i \in 1..Len(replacements) :
                  Count(files[p], replacements[i][2])
                      >= SumCounts(filesSubst[p], replacements, replacements[i][2])

C1_Witness ==
    /\ pc = "git"
    /\ SafeArgs
    /\ ReadmeFile \in DOMAIN files
    /\ \A k \in Placeholders \ {kMyplugin, kMyPlugin} : Occurs(filesSubst[ReadmeFile], k)
    /\ ~HasPlaceholder(files[ReadmeFile])
    /\ \E p \in TargetPaths \cap DOMAIN files :
          /\ Occurs(filesSubst[p], kMyplugin)
          /\ Count(files[p], plugin_snake) > Count(filesSubst[p], kMyplugin)

(***************************************************************************)
(* C2 as stated: with a URL whose last segment ends in '.nvim' and         *)
(* lazy.lua present, every '/nvim-plugin-template' of lazy.lua is replaced *)
(* by '/' and the repository name without that suffix ('/foo' for          *)
(* https://github.com/alice/foo.nvim); otherwise the step changes nothing. *)
(***************************************************************************)
sDotNvim == <<".","n","v","i","m">>
sSlashFoo == <<"/","f","o","o">>

NameWithoutDotNvim ==
    LET name == Basename(git_url.text)
    IN  SubSeq(name, 1, Len(name) - Len(sDotNvim))

\* C2 as stated: '/nvim-plugin-template' becomes '/' + the repository name
\* without '.nvim'; nothing changes when the suffix does not match
C2_LazyPatchStripsSuffix ==
    (pc = "done" /\ ~git_url.none /\ git_url.text # <<>> /\ LazyFile \in DOMAIN files) =>
        LET before == ApplyReplacements(files0[LazyFile])
        IN  IF EndsWith(Basename(git_url.text), sDotNvim)
            THEN /\ files[LazyFile]
                      = Replace(before, sTemplate, <<"/">> \o NameWithoutDotNvim)
                 /\ (git_url.text = urlFooNvim /\ Occurs(before, sTemplate)) =>
                        /\ Occurs(files[LazyFile], sSlashFoo)
                        /\ ~Occurs(files[LazyFile], sSlashFoo \o <<".">>)
            ELSE files[LazyFile] = before

(***************************************************************************)
(* C4 as stated: no run ends in an error, whatever the arguments, the      *)
(* initial filesystem and the outcome of the git call: the run reaches     *)
(* 'Done' and exits with code 0.                                           *)
(***************************************************************************)
C4_NoRunEndsInError == pc # "error" /\ exitCode \in {-1, 0}

(***************************************************************************)
(* C3 as stated: a second run with the same arguments on the output of the *)
(* first completes without failing and leaves every file's text as the     *)
(* first run left it.                                                      *)
(***************************************************************************)
C3_Original ==
    run >= 2 =>
        /\ pc # "error"
        /\ pc = "done" => files = filesPrev

\* the output of the previous run holds nothing the next run would replace
PrevClean ==
    /\ \A p \in TargetPaths \cap DOMAIN filesPrev : ~HasPlaceholder(filesPrev[p])
    /\ (~git_url.none /\ EndsWith(Basename(git_url.text), suffix)
            /\ LazyFile \in DOMAIN filesPrev)
          => ~Occurs(filesPrev[LazyFile], sTemplate)

(***************************************************************************)
(* C3 amended: a second run with the same arguments on the output of the   *)
(* first completes without failing, and leaves every file's text as the    *)
(* first run left it provided that output contains no placeholder in a     *)
(* target file (and, when the URL's last segment ends in 'nvim', no        *)
(* '/nvim-plugin-template' in lazy.lua).                                   *)
(***************************************************************************)
C3_RerunNoOpWhenClean ==
    run >= 2 =>
        /\ pc # "error"
        /\ (pc = "done" /\ PrevClean) =>
              /\ files = filesPrev
              /\ exitCode = 0

C3_Witness ==
    /\ run = 2
    /\ pc = "done"
    /\ PrevClean
    /\ filesPrev # files0
    /\ SrcDir \in dirs0
    /\ SrcDir \notin dirs
    /\ files = filesPrev

(***************************************************************************)
(* C6: a failed git call (non-zero exit, or the binary cannot be run) is   *)
(* caught and reported as a warning; the run goes on to the lazy.lua       *)
(* patch, finishes normally, and the files the substitution step rewrote   *)
(* stay as rewritten.                                                      *)
(***************************************************************************)
GitFailed == gitResult \in {"nonzero", "notfound"}

PatchApplies ==
    EndsWith(Basename(git_url.text), suffix) /\ LazyFile \in DOMAIN files

C6_FailureCaughtStep ==
    (pc = "git" /\ gitResult' \in {"nonzero", "notfound"}) =>
        /\ pc' = "lazy"
        /\ files' = files
        /\ dirs' = dirs
        /\ out' = Append(out, [tag |-> "git_warn", path |-> <<>>])

C6_PatchStillAttemptedStep ==
    (pc = "lazy" /\ GitFailed) =>
        /\ pc' = "finish"
        /\ DOMAIN files' = DOMAIN files
        /\ \A p \in DOMAIN files \ {LazyFile} : files'[p] = files[p]
        /\ IF PatchApplies
           THEN /\ files'[LazyFile]
                     = Replace(files[LazyFile], sTemplate,
                               <<"/">> \o SubSeq(Basename(git_url.text), 1,
                                    Len(Basename(git_url.text)) - Len(suffix)))
                /\ "lazy_updated" \in {out'[i].tag : i \in 1..Len(out')}
           ELSE files' = files

C6_EndsNormally ==
    GitFailed =>
        /\ pc \in {"lazy", "finish", "done"}
        /\ exitCode \in {-1, 0}
        /\ "git_warn" \in Tags
        /\ pc = "done" =>
              /\ exitCode = 0
              /\ \A i \in 1..Len(files_to_update) :
                    LET p == PathOf(files_to_update[i])
                    IN  (p \in DOMAIN files /\ p # LazyFile) =>
                            files[p] = ApplyReplacements(filesSubst[p])

\* C6: a failed git call is caught as a warning, the lazy.lua patch is still
\* attempted, the run ends normally and rewritten files stay rewritten
C6_GitFailureNonFatal ==
    /\ [][C6_FailureCaughtStep]_vars
    /\ [][C6_PatchStillAttemptedStep]_vars
    /\ []C6_EndsNormally

C6_Witness ==
    /\ pc = "done"
    /\ gitResult = "notfound"
    /\ exitCode = 0
    /\ "lazy_updated" \in Tags
    /\ Occurs(files0[LazyFile], sTemplate)
    /\ ~Occurs(files[LazyFile], sTemplate)
    /\ ReadmeFile \in DOMAIN files
    /\ files[ReadmeFile] # files0[ReadmeFile]

(***************************************************************************)
(* C7: when no repository URL is supplied the run never invokes git and    *)
(* never performs the lazy.lua patch: every '/nvim-plugin-template' of     *)
(* lazy.lua is still there at the end, and skipping the two steps raises   *)
(* nothing: the run goes from the substitution step straight to 'Done'.    *)
(***************************************************************************)
NoUrlSupplied == git_url.none \/ git_url.text = <<>>

C7_SkipStep ==
    (NoUrlSupplied /\ pc = "git") =>
        /\ pc' = "finish"
        /\ files' = files
        /\ dirs' = dirs
        /\ out' = out

C7_NothingDone ==
    NoUrlSupplied =>
        /\ gitCalls = 0
        /\ gitResult = "none"
        /\ pc # "lazy"
        /\ Tags \cap {"git_ok", "git_warn", "lazy_updated"} = {}
        /\ LazyFile \in DOMAIN files0 =>
              /\ LazyFile \in DOMAIN files
              /\ Count(files[LazyFile], sTemplate) >= Count(files0[LazyFile], sTemplate)
        /\ pc = "done" => exitCode = 0

SrcAbsent == SrcDir \notin dirs /\ SrcDir \notin DOMAIN files

C8_SilentStep ==
    (pc = "rename" /\ SrcAbsent) =>
        /\ pc' = "update"
        /\ dirs' = dirs
        /\ files' = files
        /\ out' = out
        /\ exitCode' = exitCode

C8_AllRewritten ==
    (SrcDir \notin dirs0 /\ pc \in {"git", "lazy"}) =>
        /\ dirs = dirs0
        /\ DOMAIN files = DOMAIN files0
        /\ "renamed" \notin Tags
        /\ \A p \in DOMAIN files0 :
              IF p \in TargetPaths
              THEN /\ files[p] = ApplyReplacements(files0[p])
                   /\ Logged("updated", p)
              ELSE files[p] = files0[p]

\* C8: with lua/myplugin absent the rename step is a silent no-op and every
\* existing target file is rewritten
C8_AbsentSourceSkipsRename == [][C8_SilentStep]_vars /\ []C8_AllRewritten

C8_Witness ==
    /\ pc = "git"
    /\ SrcDir \notin dirs0
    /\ <<cLua, plugin_snake, cInitLua>> \in DOMAIN files
    /\ files[<<cLua, plugin_snake, cInitLua>>] # files0[<<cLua, plugin_snake, cInitLua>>]
    /\ ReadmeFile \in DOMAIN files
    /\ files[ReadmeFile] # files0[ReadmeFile]

(***************************************************************************)
(* C9 as stated: when lua/myplugin exists at the start, the rename step    *)
(* moves it to exactly lua/<snake form> before any content is rewritten,   *)
(* so its init.lua, config.lua and commands.lua are found at               *)
(* lua/<snake form>/ and are the ones the substitution step rewrites,      *)
(* whether or not lua/<snake form> already existed.                        *)
(***************************************************************************)
UnderSnakeDir(p) == <<cLua, plugin_snake>> \o Drop(p, Len(SrcDir))

\* C9 as stated: the files of lua/myplugin are found at lua/<snake form>/
\* before the substitution step, and are the ones it rewrites
C9_SourceMovedToSnakeDir ==
    (SrcDir \in dirs0 /\ pc # "start") =>
        /\ pc \notin {"rename", "error"} =>
              \A p \in DOMAIN files0 :
                  IsPrefix(SrcDir, p) =>
                      /\ UnderSnakeDir(p) \in DOMAIN filesSubst
                      /\ filesSubst[UnderSnakeDir(p)] = files0[p]
        /\ pc = "git" =>
              \A p \in DOMAIN files0 :
                  IsPrefix(SrcDir, p) =>
                      /\ UnderSnakeDir(p) \in DOMAIN files
                      /\ files[UnderSnakeDir(p)] = ApplyReplacements(files0[p])

(***************************************************************************)
(* C10 as stated: a run writes only to files that already exist among the  *)
(* five target paths: it never creates a missing target file, never        *)
(* changes the text of a file outside the list, and a target file that     *)
(* contains no placeholder has the same text after the run as before.      *)
(***************************************************************************)
\* the rename step moves files without changing any text
MovePreservesText ==
    /\ Cardinality(DOMAIN filesSubst) = Cardinality(DOMAIN files0)
    /\ \A p \in DOMAIN files0 :
          IF IsPrefix(SrcDir, p)
          THEN \E q \in DOMAIN filesSubst :
                  /\ q[Len(q)] = p[Len(p)]
                  /\ filesSubst[q] = files0[p]
          ELSE p \in DOMAIN filesSubst /\ filesSubst[p] = files0[p]

WritesOnlyTargets ==
    /\ DOMAIN files = DOMAIN filesSubst
    /\ \A p \in DOMAIN files \ TargetPaths : files[p] = filesSubst[p]

\* C10 as stated: only existing target files are written, and a target file
\* without placeholders keeps its text
C10_Original ==
    PastRename =>
        /\ MovePreservesText
        /\ WritesOnlyTargets
        /\ pc = "done" =>
              \A p \in TargetPaths \cap DOMAIN files :
                  ~HasPlaceholder(filesSubst[p]) => files[p] = filesSubst[p]

(***************************************************************************)
(* C10 amended: a run writes only to files that already exist among the    *)
(* five target paths: it never creates a missing target file, never        *)
(* changes the text of a file outside the list, and a target file that     *)
(* contains no placeholder has the same text after the run as before,      *)
(* except lazy.lua when it contains '/nvim-plugin-template' and a URL      *)
(* whose last segment ends in 'nvim' is supplied.                          *)
(***************************************************************************)
LazyPatchDue(p) ==
    /\ p = LazyFile
    /\ ~git_url.none
    /\ EndsWith(Basename(git_url.text), suffix)
    /\ Occurs(filesSubst[p], sTemplate)

\* C10 amended: as stated, except lazy.lua when the secondary patch is due
C10_WritesOnlyExistingTargets ==
    PastRename =>
        /\ MovePreservesText
        /\ WritesOnlyTargets
        /\ pc = "done" =>
              \A p \in TargetPaths \cap DOMAIN files :
                  (~HasPlaceholder(filesSubst[p]) /\ ~LazyPatchDue(p))
                      => files[p] = filesSubst[p]

C10_Witness ==
    /\ pc = "done"
    /\ SrcDir \in dirs0
    /\ <<cLua, plugin_snake, cCommandsLua>> \in DOMAIN files
    /\ ~HasPlaceholder(filesSubst[<<cLua, plugin_snake, cCommandsLua>>])
    /\ <<cLua, plugin_snake, cConfigLua>> \notin DOMAIN files
    /\ LazyFile \in DOMAIN files
    /\ ~HasPlaceholder(filesSubst[LazyFile])
    /\ files[LazyFile] = filesSubst[LazyFile]
    /\ ReadmeFile \in DOMAIN files
    /\ files[ReadmeFile] # filesSubst[ReadmeFile]
    /\ files[<<sNotesTxt>>] = files0[<<sNotesTxt>>]

====
